---- MODULE Spec2Model ----
(***************************************************************************)
(* Model of the FX cashflow converter:                                     *)
(*   src/points_interpolator.py        PointsInterpolator (curve store,    *)
(*                                     business-day count, interpolation)  *)
(*   src/cashflow_convertor_standard.py  cashflow / P&L derivation,        *)
(*                                     aggregation, ordered CSV output     *)
(*                                                                         *)
(* Text is a sequence of one-character strings, so that strip, split,      *)
(* upper, isalpha and the Decimal constructor are computed on the          *)
(* characters.  A Decimal is an exact fraction [n, d] in lowest terms      *)
(* with d > 0: every value of the model has far fewer than the 28          *)
(* significant digits of the default decimal context.  A date is its       *)
(* proleptic ordinal (ordinal 1 is a Monday); None is modelled by NoDate   *)
(* for dates and by the empty text for texts.                              *)
(***************************************************************************)
EXTENDS Integers, Sequences, FiniteSets, TLC

VARIABLES
    pc,               \* position of the run
    points_interpolator, \* TRUE when main built a PointsInterpolator
    points_data,      \* PointsInterpolator.points_data: pair -> list of samples
    current_pair,     \* load_points_csv: local current_pair (<<>> is None)
    nlines,           \* lines of the report consumed so far
    loaded,           \* points_data as it was when loading finished
    lastLine,         \* the report line handled by the latest load step
    call,             \* the latest interpolate call: arguments and outcome
    divisor_call,     \* the latest points_divisor_by_pair call and its result
    ntrades,          \* trades handled by the loop of main
    all_cashflows,    \* main: all_cashflows
    all_pnl,          \* main: all_pnl, currency -> Decimal
    okCcys,           \* currencies of swaps whose P&L interpolation gave a value
    last,             \* the latest trade handled and what it produced
    aggregated,       \* result of aggregate_cashflows
    csv               \* outcome of generate_csv

vars == <<pc, points_interpolator, points_data, current_pair, nlines, loaded,
          lastLine, call, divisor_call, ntrades, all_cashflows, all_pnl, okCcys, last,
          aggregated, csv>>

----------------------------------------------------------------------------
(* Bounds of the model *)
MaxLines == 4         \* lines of a curve report on its own
MaxMainLines == 3     \* lines of the curve report of a run of main
MaxTrades == 2        \* trades of a run of main
MaxEntries == 3       \* entries handed to the aggregator on its own

----------------------------------------------------------------------------
(* Decimal arithmetic *)

Abs(x) == IF x < 0 THEN -x ELSE x

RECURSIVE GCD(_, _)
GCD(a, b) == IF b = 0 THEN a ELSE GCD(b, a % b)

Norm(n, d) ==
    LET g == GCD(Abs(n), Abs(d))
        s == IF d < 0 THEN -1 ELSE 1
    IN  [n |-> s * (n \div g), d |-> s * (d \div g)]

Dec(i) == [n |-> i, d |-> 1]
Zero == Dec(0)

DAdd(a, b) ==
    LET g == GCD(a.d, b.d)
    IN  Norm(a.n * (b.d \div g) + b.n * (a.d \div g), (a.d \div g) * b.d)
DNeg(a) == [n |-> -a.n, d |-> a.d]
DSub(a, b) == DAdd(a, DNeg(b))
DMul(a, b) ==
    LET x == Norm(a.n, b.d)
        y == Norm(b.n, a.d)
    IN  Norm(x.n * y.n, x.d * y.d)
DDiv(a, b) == DMul(a, Norm(b.d, b.n))        \* b # Zero
DAbs(a) == [n |-> Abs(a.n), d |-> a.d]
DLess(a, b) == DSub(a, b).n < 0
DLeq(a, b) == DSub(a, b).n <= 0
IsWhole(a) == a.d = 1

----------------------------------------------------------------------------
(* Text *)

Space == " "

RECURSIVE lstrip(_)
lstrip(s) == IF s # <<>> /\ Head(s) = Space THEN lstrip(Tail(s)) ELSE s

RECURSIVE rstrip(_)
rstrip(s) ==
    IF s # <<>> /\ s[Len(s)] = Space THEN rstrip(SubSeq(s, 1, Len(s) - 1)) ELSE s

strip(s) == lstrip(rstrip(s))

(* str.split(sep): the list of the pieces between the separators *)
RECURSIVE SplitFrom(_, _, _, _)
SplitFrom(s, sep, i, piece) ==
    IF i > Len(s) THEN <<piece>>
    ELSE IF s[i] = sep THEN <<piece>> \o SplitFrom(s, sep, i + 1, <<>>)
    ELSE SplitFrom(s, sep, i + 1, Append(piece, s[i]))

split(s, sep) == SplitFrom(s, sep, 1, <<>>)

Contains(s, c) == \E i \in 1..Len(s) : s[i] = c

RECURSIVE Remove(_, _)
Remove(s, c) ==
    IF s = <<>> THEN <<>>
    ELSE IF Head(s) = c THEN Remove(Tail(s), c)
    ELSE <<Head(s)>> \o Remove(Tail(s), c)

Lowers == <<"a","b","c","d","e","f","g","h","i","j","k","l","m",
            "n","o","p","q","r","s","t","u","v","w","x","y","z">>
Uppers == <<"A","B","C","D","E","F","G","H","I","J","K","L","M",
            "N","O","P","Q","R","S","T","U","V","W","X","Y","Z">>
Digits == <<"0","1","2","3","4","5","6","7","8","9">>

IsLower(c) == \E i \in 1..Len(Lowers) : Lowers[i] = c
IsUpper(c) == \E i \in 1..Len(Uppers) : Uppers[i] = c
IsDigit(c) == \E i \in 1..Len(Digits) : Digits[i] = c

UpperChar(c) ==
    IF IsLower(c) THEN Uppers[CHOOSE i \in 1..Len(Lowers) : Lowers[i] = c] ELSE c
upper(s) == [i \in 1..Len(s) |-> UpperChar(s[i])]

isalpha(s) == s # <<>> /\ \A i \in 1..Len(s) : IsLower(s[i]) \/ IsUpper(s[i])

DigitVal(c) == (CHOOSE i \in 1..Len(Digits) : Digits[i] = c) - 1

RECURSIVE DigitsVal(_, _)
DigitsVal(s, acc) ==
    IF s = <<>> THEN acc ELSE DigitsVal(Tail(s), 10 * acc + DigitVal(Head(s)))

RECURSIVE Pow10(_)
Pow10(k) == IF k = 0 THEN 1 ELSE 10 * Pow10(k - 1)

(* Decimal(text): [sign] digits [. digits], blanks around it ignored.  Any   *)
(* other text of the model's inputs makes the constructor raise              *)
(* decimal.InvalidOperation.                                                 *)
Unsigned(s) == IF s # <<>> /\ Head(s) \in {"-", "+"} THEN Tail(s) ELSE s

DecimalOk(text) ==
    LET u == Unsigned(strip(text))
        parts == split(u, ".")
    IN  /\ Len(parts) \in {1, 2}
        /\ \A p \in 1..Len(parts) : \A i \in 1..Len(parts[p]) : IsDigit(parts[p][i])
        /\ \E p \in 1..Len(parts) : parts[p] # <<>>

Decimal(text) ==
    LET t == strip(text)
        u == Unsigned(t)
        parts == split(u, ".")
        frac == IF Len(parts) = 2 THEN parts[2] ELSE <<>>
        mag == Norm(DigitsVal(parts[1] \o frac, 0), Pow10(Len(frac)))
    IN  IF Head(t) = "-" THEN DNeg(mag) ELSE mag

----------------------------------------------------------------------------
(* points_interpolator.py: the curve store *)

NoDate == 0          \* None, where a date is expected

TENOR_DAYS == <<
    << <<"O","N">>, 1 >>,     << <<"T","N">>, 2 >>,     << <<"S","P">>, 0 >>,
    << <<"S","N">>, 3 >>,     << <<"1","W">>, 7 >>,     << <<"2","W">>, 14 >>,
    << <<"3","W">>, 21 >>,    << <<"1","M">>, 30 >>,    << <<"2","M">>, 60 >>,
    << <<"3","M">>, 90 >>,    << <<"4","M">>, 120 >>,   << <<"5","M">>, 150 >>,
    << <<"6","M">>, 180 >>,   << <<"9","M">>, 270 >>,   << <<"1","5","M">>, 450 >>,
    << <<"1","8","M">>, 540 >>, << <<"1","Y">>, 365 >>, << <<"2","Y">>, 730 >>,
    << <<"3","Y">>, 1095 >>,  << <<"4","Y">>, 1460 >>,  << <<"5","Y">>, 1825 >> >>

(* TENOR_DAYS.get(tenor, 0) *)
TenorDays(tenor) ==
    IF \E i \in 1..Len(TENOR_DAYS) : TENOR_DAYS[i][1] = tenor
    THEN TENOR_DAYS[CHOOSE i \in 1..Len(TENOR_DAYS) : TENOR_DAYS[i][1] = tenor][2]
    ELSE 0

Tenor == <<"T","e","n","o","r">>

(* A single-field line is a pair header when it is alphabetic with at least *)
(* five characters or contains a slash.                                      *)
IsPairHeader(first_part) ==
    \/ isalpha(first_part) /\ Len(first_part) >= 5
    \/ Contains(first_part, "/")

(* The sample a data row yields (lines 86-97); the row's numbers parse *)
Sample(parts) ==
    LET bid_pts == Decimal(strip(parts[3]))
        avg_pts == DDiv(DAdd(bid_pts, Decimal(strip(parts[4]))), Dec(2))
    IN  [tenor |-> strip(parts[1]), days |-> TenorDays(strip(parts[1])),
         bid_points |-> bid_pts, avg_points |-> avg_pts]

(* Decimal(parts[2]) or Decimal(parts[3]) raises decimal.InvalidOperation, *)
(* an ArithmeticError, which `except (ValueError, IndexError)` lets pass.   *)
RowRaises(parts) ==
    ~DecimalOk(strip(parts[3])) \/ ~DecimalOk(strip(parts[4]))

(* A line that reaches the data-row branch with a pair set (line 85) *)
IsDataRow(raw, pair) ==
    LET line == strip(raw)
        parts == split(line, ",")
    IN  /\ line # <<>> /\ Head(line) # "#"
        /\ Len(parts) >= 4
        /\ strip(parts[1]) # Tenor
        /\ pair # <<>>

WithPair(data, pair) ==
    IF pair \in DOMAIN data THEN data ELSE data @@ (pair :> <<>>)

(* One iteration of the loop over the lines of the report (lines 55-99).   *)
(* The result is the new (points_data, current_pair) and whether the       *)
(* iteration raised.                                                        *)
load_line(data, pair, raw) ==
    LET line == strip(raw)
        parts == split(line, ",")
        same == [data |-> data, pair |-> pair, raised |-> FALSE]
    IN  IF line = <<>> \/ Head(line) = "#" THEN same
        ELSE IF Len(parts) = 1 THEN
            IF IsPairHeader(strip(parts[1]))
            THEN [data |-> WithPair(data, strip(parts[1])),
                  pair |-> strip(parts[1]), raised |-> FALSE]
            ELSE same
        ELSE IF strip(parts[1]) = Tenor THEN same
        ELSE IF pair # <<>> /\ Len(parts) >= 4 THEN
            IF RowRaises(parts)
            THEN [data |-> data, pair |-> pair, raised |-> TRUE]
            ELSE [data |-> [data EXCEPT ![pair] = Append(@, Sample(parts))],
                  pair |-> pair, raised |-> FALSE]
        ELSE same

----------------------------------------------------------------------------
(* points_interpolator.py: business days and interpolation *)

weekday(d) == (d - 1) % 7          \* date.weekday(): 0 is Monday

RECURSIVE BusinessDaysLoop(_, _, _)
BusinessDaysLoop(current, end_date, days) ==
    IF current < end_date
    THEN BusinessDaysLoop(current + 1, end_date,
                          IF weekday(current) < 5 THEN days + 1 ELSE days)
    ELSE days

get_business_days_exclusive(start_date, end_date) ==
    BusinessDaysLoop(start_date + 1, end_date, 0)

get_business_days(start_date, end_date) ==
    BusinessDaysLoop(start_date, end_date, 0)

(* list.sort(key=days) is stable: equal keys keep their order *)
RECURSIVE InsertByDays(_, _)
InsertByDays(sorted, x) ==
    IF sorted = <<>> THEN <<x>>
    ELSE IF sorted[Len(sorted)].days <= x.days THEN Append(sorted, x)
    ELSE Append(InsertByDays(SubSeq(sorted, 1, Len(sorted) - 1), x),
                sorted[Len(sorted)])

RECURSIVE SortFrom(_, _, _)
SortFrom(list, i, sorted) ==
    IF i > Len(list) THEN sorted
    ELSE SortFrom(list, i + 1, InsertByDays(sorted, list[i]))

sort_unsorted(list) == list

sort_by_days(list) == SortFrom(list, 1, <<>>)

(* Outcomes of interpolate: a Decimal, None, or an exception *)
Value(v) == [kind |-> "value", val |-> v]
None == [kind |-> "none", val |-> Zero]
Raised == [kind |-> "raise", val |-> Zero]

calc_date_of(value_date, current_date) ==
    IF current_date < value_date THEN value_date ELSE current_date

(* lines 171-172 *)
linear(p1, p2, target_days) ==
    LET ratio == DDiv(Dec(target_days - p1.days), Dec(p2.days - p1.days))
    IN  DAdd(p1.avg_points, DMul(ratio, DSub(p2.avg_points, p1.avg_points)))

(* lines 165-175: the bracket search *)
RECURSIVE LinearLoop(_, _, _)
LinearLoop(points_list, target_days, i) ==
    IF i > Len(points_list) - 1 THEN None
    ELSE LET p1 == points_list[i]
             p2 == points_list[i + 1]
         IN  IF p1.days <= target_days /\ target_days <= p2.days
             THEN IF p2.days - p1.days = 0 THEN Raised
                  ELSE Value(linear(p1, p2, target_days))
             ELSE LinearLoop(points_list, target_days, i + 1)

(* lines 157-175, on the sorted list *)
interpolate_sorted(points_list, target_days) ==
    IF target_days <= points_list[1].days
    THEN Value(points_list[1].avg_points)
    ELSE IF target_days >= points_list[Len(points_list)].days
    THEN Value(points_list[Len(points_list)].avg_points)
    ELSE LinearLoop(points_list, target_days, 1)

(* Whether a call gets as far as line 148, where the target is computed *)
TargetReached(data, pair, value_date, mat_date, current_date) ==
    /\ pair \in DOMAIN data
    /\ mat_date # NoDate
    /\ mat_date > calc_date_of(value_date, current_date)

(* Whether a call gets as far as line 155, where the stored list is sorted *)
ReachesSort(data, pair, value_date, mat_date, current_date) ==
    /\ TargetReached(data, pair, value_date, mat_date, current_date)
    /\ data[pair] # <<>>

(* interpolate, its return value.  current_date is the effective one:      *)
(* the argument, or date.today() when the argument is None.                 *)
interpolate(data, pair, value_date, mat_date, current_date) ==
    IF ~ReachesSort(data, pair, value_date, mat_date, current_date) THEN None
    ELSE interpolate_sorted(
            sort_by_days(data[pair]),
            get_business_days(calc_date_of(value_date, current_date), mat_date))

(* interpolate, its effect on points_data: line 155 sorts the stored list *)
(* in place.                                                                *)
interpolate_store(data, pair, value_date, mat_date, current_date) ==
    IF ReachesSort(data, pair, value_date, mat_date, current_date)
    THEN [data EXCEPT ![pair] = sort_by_days(@)]
    ELSE data

----------------------------------------------------------------------------
(* points_interpolator.py and cashflow_convertor_standard.py: helpers *)

JPY == <<"J","P","Y">>

(* points_divisor_by_pair without the .upper() of line 193 *)
points_divisor_case_sensitive(pair) ==
    IF pair = <<>> \/ ~Contains(pair, "/") THEN 10000
    ELSE IF strip(split(pair, "/")[1]) = JPY THEN 1000000
    ELSE 10000

points_divisor_by_pair(pair) ==
    IF pair = <<>> \/ ~Contains(pair, "/") THEN 10000
    ELSE IF strip(upper(split(pair, "/")[1])) = JPY THEN 1000000
    ELSE 10000

(* parse_decimal: empty or unparseable text is 0; thousands separators go *)
parse_decimal(s) ==
    IF s = <<>> THEN Zero
    ELSE LET t == Remove(strip(s), ",")
         IN  IF DecimalOk(t) THEN Decimal(t) ELSE Zero

(* Rounding to a whole number that a plausible slip would use: floor(x + 1/2) *)
quantize_half_ceiling(amt) ==
    LET k == 2 * amt.n + amt.d
        m == 2 * amt.d
    IN  Dec((k - (k % m)) \div m)

(* amt.quantize(Decimal('1'), rounding=ROUND_HALF_UP): nearest whole number, *)
(* a tie going away from zero                                                *)
quantize_half_up(amt) ==
    LET q == (2 * Abs(amt.n) + amt.d) \div (2 * amt.d)
    IN  Dec(IF amt.n < 0 THEN -q ELSE q)

normalize_cashflow(ccy, amt) ==
    IF ccy = JPY THEN quantize_half_up(amt) ELSE amt

(* parse_pair: (base, quote) *)
parse_pair(pair) ==
    LET parts == split(strip(pair), "/")
    IN  IF Len(parts) = 2
        THEN <<strip(upper(parts[1])), strip(upper(parts[2]))>>
        ELSE <<strip(upper(pair)), <<>> >>

Entry(date, ccy, amt, trade, type) ==
    [Date |-> date, Currency |-> ccy, Cashflow |-> normalize_cashflow(ccy, amt),
     TradeId |-> trade.deal_id, Type |-> type]

----------------------------------------------------------------------------
(* cashflow_convertor_standard.py: per-trade derivations.  A trade carries  *)
(* the texts of its Amount1, Amount2, Rate/Price and Security fields and    *)
(* the dates parse_date_safe made of its date fields (NoDate for None).     *)
(* has is the truth value of points_interpolator, data its points_data,     *)
(* today the value of date.today() during the call.                         *)

SwapSkipped(trade) ==
    \/ parse_decimal(trade.amount1) = Zero
    \/ trade.value_date = NoDate
    \/ trade.mat_date = NoDate

(* lines 106-107: the outcome of the interpolation asked for the far leg *)
swap_points(trade, has, data, today) ==
    IF has /\ trade.mat_date # NoDate
    THEN interpolate(data, trade.security, trade.value_date, trade.mat_date, today)
    ELSE None

fallback_zero(trade, curve_pts) ==
    IF curve_pts.kind = "value" THEN curve_pts.val ELSE Zero

(* lines 108-113: the points that enter the far rate *)
far_points(trade, curve_pts) ==
    IF curve_pts.kind = "value" THEN curve_pts.val
    ELSE parse_decimal(trade.rate_price)

far_rate_of(trade, curve_pts) ==
    LET amount1 == parse_decimal(trade.amount1)
        amount2 == parse_decimal(trade.amount2)
        near_rate == DAbs(DDiv(amount2, amount1))
        divisor == Dec(points_divisor_by_pair(trade.security))
    IN  DAdd(near_rate, DDiv(far_points(trade, curve_pts), divisor))

(* calculate_swap_cashflows, given the outcome of its interpolate call *)
calculate_swap_cashflows(trade, curve_pts) ==
    IF SwapSkipped(trade) THEN <<>>
    ELSE LET amount1 == parse_decimal(trade.amount1)
             amount2 == parse_decimal(trade.amount2)
             base_ccy == parse_pair(trade.security)[1]
             quote_ccy == parse_pair(trade.security)[2]
             far_amount2 == DMul(amount1, far_rate_of(trade, curve_pts))
         IN  << Entry(trade.value_date, base_ccy, amount1, trade, "FX Swap - Near"),
                Entry(trade.value_date, quote_ccy, amount2, trade, "FX Swap - Near"),
                Entry(trade.mat_date, base_ccy, DNeg(amount1), trade, "FX Swap - Far"),
                Entry(trade.mat_date, quote_ccy, far_amount2, trade, "FX Swap - Far") >>

calculate_spot_cashflows(trade) ==
    IF trade.value_date = NoDate THEN <<>>
    ELSE LET ccys == parse_pair(trade.security)
         IN  << Entry(trade.value_date, ccys[1], parse_decimal(trade.amount1),
                      trade, "Spot"),
                Entry(trade.value_date, ccys[2], parse_decimal(trade.amount2),
                      trade, "Spot") >>

calculate_forward_cashflows(trade) ==
    IF trade.mat_date = NoDate THEN <<>>
    ELSE LET ccys == parse_pair(trade.security)
         IN  << Entry(trade.mat_date, ccys[1], parse_decimal(trade.amount1),
                      trade, "Outright Forward"),
                Entry(trade.mat_date, ccys[2], parse_decimal(trade.amount2),
                      trade, "Outright Forward") >>

(* lines 230-231: the outcome of the interpolation asked for the P&L *)
pnl_points(trade, has, data, today) ==
    IF has
    THEN interpolate(data, trade.security, trade.value_date, trade.mat_date, today)
    ELSE None

(* calculate_pnl, given the outcome of its interpolate call: the empty dict *)
(* is <<>>, a dict is a one-element list                                    *)
calculate_pnl(trade, curve_pts) ==
    IF SwapSkipped(trade) THEN <<>>
    ELSE LET amount1 == parse_decimal(trade.amount1)
             rate_price == parse_decimal(trade.rate_price)
             divisor == Dec(points_divisor_by_pair(trade.security))
             pnl == IF curve_pts.kind = "value"
                    THEN DDiv(DMul(DNeg(amount1), DSub(curve_pts.val, rate_price)),
                              divisor)
                    ELSE Zero
         IN  << [Currency |-> parse_pair(trade.security)[2], PnL |-> pnl] >>

----------------------------------------------------------------------------
(* cashflow_convertor_standard.py: aggregation and ordered output *)

EmptyDict == <<>>

Put(dict, key, value) ==
    [k \in DOMAIN dict \cup {key} |-> IF k = key THEN value ELSE dict[k]]

Get(dict, key, default) == IF key \in DOMAIN dict THEN dict[key] ELSE default

overwrite(prev, amount) == amount

(* line 246: aggregated.get(key, 0) + cf['Cashflow'] *)
accumulate(prev, amount) == DAdd(prev, amount)

RECURSIVE AggregateFrom(_, _, _)
AggregateFrom(cashflows, i, agg) ==
    IF i > Len(cashflows) THEN agg
    ELSE LET cf == cashflows[i]
             key == <<cf.Date, cf.Currency>>
         IN  AggregateFrom(cashflows, i + 1,
                 Put(agg, key, accumulate(Get(agg, key, Zero), cf.Cashflow)))

aggregate_cashflows(cashflows) == AggregateFrom(cashflows, 1, EmptyDict)

(* Order of str: by code point, character by character *)
CodeOrder == <<" ", "#", "+", ",", "-", ".", "/">> \o Digits \o Uppers \o Lowers
Ord(c) == CHOOSE i \in 1..Len(CodeOrder) : CodeOrder[i] = c

RECURSIVE StrLess(_, _)
StrLess(a, b) ==
    IF b = <<>> THEN FALSE
    ELSE IF a = <<>> THEN TRUE
    ELSE IF Head(a) = Head(b) THEN StrLess(Tail(a), Tail(b))
    ELSE Ord(Head(a)) < Ord(Head(b))

(* (date, currency) < (date, currency) on tuples: the first differing       *)
(* element decides; None against a date has no order and raises TypeError   *)
KeyCompareRaises(k1, k2) == (k1[1] = NoDate) # (k2[1] = NoDate)

KeyLess(k1, k2) ==
    IF k1[1] # k2[1] THEN k1[1] < k2[1] ELSE StrLess(k1[2], k2[2])

RECURSIVE SortedKeys(_)
SortedKeys(keys) ==
    IF keys = {} THEN <<>>
    ELSE LET m == CHOOSE k \in keys : \A o \in keys : o = k \/ KeyLess(k, o)
         IN  <<m>> \o SortedKeys(keys \ {m})

(* generate_csv: sorted(aggregated.items()) compares the keys, which are    *)
(* distinct; putting a null-dated key and a dated key in order needs a      *)
(* comparison of None with a date, so the sort raises whenever both occur.  *)
generate_csv(agg) ==
    IF \E k1 \in DOMAIN agg, k2 \in DOMAIN agg : KeyCompareRaises(k1, k2)
    THEN [status |-> "TypeError", rows |-> <<>>]
    ELSE LET keys == SortedKeys(DOMAIN agg)
         IN  [status |-> "written",
              rows |-> [i \in 1..Len(keys) |->
                          <<keys[i][1], keys[i][2], agg[keys[i]]>>]]

----------------------------------------------------------------------------
(* Inputs: lines of the curve report *)

LineUSDCNY == <<"U","S","D","/","C","N","Y">>    \* 'USD/CNY': pair header with a slash
LineUSDJPY == <<" ","U","S","D","J","P","Y">>    \* ' USDJPY': alphabetic pair header
LineColumns == <<"T","e","n","o","r",",","D","a","t","e",",","B","i","d",",","A","s","k">>    \* 'Tenor,Date,Bid,Ask': column header
LineComment == <<"#","c">>    \* '#c': comment
LineShort == <<"O","N",",","1">>    \* 'ON,1': fewer than four fields
LineSP == <<"S","P",",","x",",","1",",","1">>    \* 'SP,x,1,1': horizon 0, mid 1
LineXX == <<"X","X",",","x",",","7",",","9">>    \* 'XX,x,7,9': unknown tenor: horizon 0, mid 8
LineTN == <<"T","N",",","x",",","8",",","1","2">>    \* 'TN,x,8,12': horizon 2, mid 10
Line1W == <<"1","W",",","x",","," ","2","0",",","2","0">>    \* '1W,x, 20,20': horizon 7, mid 20
LineTN30 == <<"T","N",",","x",",","3","0",",","3","0">>    \* 'TN,x,30,30': horizon 2 again, mid 30
LineBadBid == <<"T","N",",","x",",","a","b","c",",","1","2">>    \* 'TN,x,abc,12': bid points not a number
LineBadAsk == <<"1","W",",","x",",","2","0",",">>    \* '1W,x,20,': ask points empty

LineSet == {LineUSDCNY, LineUSDJPY, LineColumns, LineComment, LineShort,
            LineSP, LineXX, LineTN, LineTN30, Line1W, LineBadBid, LineBadAsk}
MainLines == {LineUSDCNY, LineTN, Line1W}

(* Inputs: interpolate calls.  Ordinal 8 is a Monday, 6 a Saturday. *)
USDCNY == <<"U","S","D","/","C","N","Y">>
USDJPY == <<"U","S","D","J","P","Y">>
CallPairs == {USDCNY}
CallValueDates == {6, 8}
CallMatDates == {NoDate, 7, 9, 10, 12, 17, 22}
CallCurrentDates == {NoDate, 8}
CallTodays == {1}
TodaySet == {1, 100}

(* Inputs: trades *)
SwapUSDCNY ==
    [deal_id |-> "SwapUSDCNY", type |-> "FX Swap",
     security |-> <<"U","S","D","/","C","N","Y">>,
     amount1 |-> <<"1","0","0">>,
     amount2 |-> <<"-","7","0","0">>,
     value_date |-> 8, mat_date |-> 12,
     rate_price |-> <<"5">>]

SwapJPYCNY ==
    [deal_id |-> "SwapJPYCNY", type |-> "FX Swap",
     security |-> <<"J","P","Y","/","C","N","Y">>,
     amount1 |-> <<"2",".","5">>,
     amount2 |-> <<"-","0",".","1","2">>,
     value_date |-> 8, mat_date |-> 12,
     rate_price |-> <<"-","0",".","5">>]

SwapUSDJPY ==
    [deal_id |-> "SwapUSDJPY", type |-> "FX Swap",
     security |-> <<"u","s","d","/","j","p","y"," ">>,
     amount1 |-> <<"1">>,
     amount2 |-> <<"-","1","5","0",".","5">>,
     value_date |-> 8, mat_date |-> 12,
     rate_price |-> <<"2","5">>]

SwapNoAmount ==
    [deal_id |-> "SwapNoAmount", type |-> "FX Swap",
     security |-> <<"U","S","D","/","C","N","Y">>,
     amount1 |-> <<"a","b","c">>,
     amount2 |-> <<"-","7","0","0">>,
     value_date |-> 8, mat_date |-> 12,
     rate_price |-> <<"5">>]

SpotJPYCNY ==
    [deal_id |-> "SpotJPYCNY", type |-> "Spot",
     security |-> <<"J","P","Y","/","C","N","Y">>,
     amount1 |-> <<"1",",","2","0","0",",","0","0","0",".","5">>,
     amount2 |-> <<"-","5","3","9","8","0",".","8">>,
     value_date |-> 8, mat_date |-> NoDate,
     rate_price |-> <<>>]

ForwardUSDJPY ==
    [deal_id |-> "ForwardUSDJPY", type |-> "Outright Forward",
     security |-> <<"U","S","D","/","J","P","Y">>,
     amount1 |-> <<"3">>,
     amount2 |-> <<"-","4","5","1",".","4">>,
     value_date |-> NoDate, mat_date |-> 12,
     rate_price |-> <<>>]

OtherDeal ==
    [deal_id |-> "OtherDeal", type |-> "Deposit",
     security |-> <<"U","S","D","/","C","N","Y">>,
     amount1 |-> <<"1">>,
     amount2 |-> <<"1">>,
     value_date |-> 8, mat_date |-> 12,
     rate_price |-> <<>>]

TradeSet == {SwapUSDCNY, SwapJPYCNY, SwapUSDJPY, SwapNoAmount, SpotJPYCNY,
             ForwardUSDJPY, OtherDeal}

(* Inputs: cashflow entries handed to the aggregator on its own *)
USD == <<"U","S","D">>
CNY == <<"C","N","Y">>
AggEntry(date, ccy, n) ==
    [Date |-> date, Currency |-> ccy, Cashflow |-> Dec(n), TradeId |-> "t",
     Type |-> "Spot"]
EntrySet == {AggEntry(5, USD, 100), AggEntry(5, USD, -40), AggEntry(6, CNY, 7),
             AggEntry(5, CNY, 3), AggEntry(NoDate, USD, 1), AggEntry(NoDate, CNY, 2)}

RECURSIVE ListsUpTo(_, _)
ListsUpTo(S, n) ==
    IF n = 0 THEN {<<>>}
    ELSE LET shorter == ListsUpTo(S, n - 1)
         IN  shorter \cup {Append(l, x) : l \in shorter, x \in S}

(* Inputs: pair texts for points_divisor_by_pair: a base part, with or     *)
(* without the separator, and a quote part                                 *)
DivisorBases == {<<>>, <<" ">>, JPY, <<"j","p","y">>, <<"J","p","y">>,
                 <<" ","J","P","Y">>, <<"J","P","Y"," ">>,
                 <<" ","j","p","Y"," "," ">>, <<"J"," ","P","Y">>,
                 <<"J","P">>, <<"J","P","Y","X">>, <<"X","J","P","Y">>,
                 <<"U","S","D">>, <<"u","s","d">>, <<"E","U","R">>,
                 <<"C","N","Y">>}
DivisorSeparators == {<<>>, <<"/">>}
DivisorQuotes == {<<>>, <<"C","N","Y">>, <<"U","S","D">>, JPY, <<" ","j","p","y">>,
                  <<"C","N","Y","/","J","P","Y">>}
DivisorPairs == {b \o sep \o q : b \in DivisorBases, sep \in DivisorSeparators,
                                q \in DivisorQuotes}

----------------------------------------------------------------------------
(* State machine *)

NoDivisorCall == [made |-> FALSE, pair |-> <<>>, ret |-> 0]

NoCall == [made |-> FALSE, pair |-> <<>>, known |-> FALSE, value_date |-> NoDate,
           mat_date |-> NoDate, calc_date |-> NoDate, before |-> <<>>,
           reached |-> FALSE, target_days |-> 0, ret |-> None]

NoLast == [handled |-> FALSE, trade |-> OtherDeal, cashflows |-> <<>>,
           pts |-> None, pnl |-> <<>>, pnl_pts |-> None]

NoCsv == [status |-> "none", rows |-> <<>>]

Init ==
    /\ pc = "start"
    /\ points_interpolator = FALSE
    /\ points_data = EmptyDict
    /\ current_pair = <<>>
    /\ nlines = 0
    /\ loaded = EmptyDict
    /\ lastLine = <<>>
    /\ call = NoCall
    /\ divisor_call = NoDivisorCall
    /\ ntrades = 0
    /\ all_cashflows = <<>>
    /\ all_pnl = EmptyDict
    /\ okCcys = {}
    /\ last = NoLast
    /\ aggregated = EmptyDict
    /\ csv = NoCsv

curveVars == <<points_interpolator, points_data, current_pair, nlines, loaded,
               lastLine>>
mainVars == <<divisor_call, ntrades, all_cashflows, all_pnl, okCcys, last,
              aggregated, csv>>

(* main, lines 413-415: no --points_csv, no interpolator *)
NoPointsCsv ==
    /\ pc = "start"
    /\ pc' = "ready"
    /\ UNCHANGED <<curveVars, call, mainVars>>

(* load_points_csv, lines 50-52 and 100-101: the file does not exist *)
MissingFile ==
    /\ pc = "start"
    /\ pc' = "ready"
    /\ points_interpolator' = TRUE
    /\ UNCHANGED <<points_data, current_pair, nlines, loaded, lastLine, call,
                   mainVars>>

(* load_points_csv, lines 50-54: the file is read *)
OpenFile ==
    /\ pc = "start"
    /\ pc' = "load"
    /\ UNCHANGED <<curveVars, call, mainVars>>

(* load_points_csv, lines 55-99: one line of the report.  An exception     *)
(* leaves the constructor, so no interpolator comes to exist.               *)
LoadLine(raw, max) ==
    /\ pc = "load"
    /\ nlines < max
    /\ LET r == load_line(points_data, current_pair, raw)
       IN  /\ points_data' = r.data
           /\ current_pair' = r.pair
           /\ pc' = IF r.raised THEN "load_raised" ELSE "load"
    /\ nlines' = nlines + 1
    /\ lastLine' = raw
    /\ UNCHANGED <<points_interpolator, loaded, call, mainVars>>

(* The loop is over: the constructor returns and its locals are gone *)
LoadEnd ==
    /\ pc = "load"
    /\ pc' = "ready"
    /\ points_interpolator' = TRUE
    /\ loaded' = points_data
    /\ current_pair' = <<>>
    /\ nlines' = 0
    /\ lastLine' = <<>>
    /\ UNCHANGED <<points_data, call, mainVars>>

(* A call of interpolate on the constructed interpolator *)
InterpolateCall(pair, value_date, mat_date, current_date, today) ==
    /\ pc = "ready"
    /\ points_interpolator
    /\ LET cur == IF current_date = NoDate THEN today ELSE current_date
       IN  /\ call' = [made |-> TRUE, pair |-> pair,
                       known |-> pair \in DOMAIN points_data,
                       value_date |-> value_date, mat_date |-> mat_date,
                       calc_date |-> calc_date_of(value_date, cur),
                       before |-> Get(points_data, pair, <<>>),
                       reached |-> TargetReached(points_data, pair, value_date,
                                                 mat_date, cur),
                       target_days |->
                           IF TargetReached(points_data, pair, value_date,
                                            mat_date, cur)
                           THEN get_business_days(
                                    calc_date_of(value_date, cur), mat_date)
                           ELSE 0,
                       ret |-> interpolate(points_data, pair, value_date,
                                           mat_date, cur)]
           /\ points_data' = interpolate_store(points_data, pair, value_date,
                                               mat_date, cur)
    /\ UNCHANGED <<pc, points_interpolator, current_pair, nlines, loaded,
                   lastLine, mainVars>>

(* main, lines 424-443: one iteration of the loop over the trades.  The    *)
(* two interpolate calls of a swap read the clock one after the other.     *)
ProcessTrade(trade, today1, today2) ==
    /\ pc = "ready"
    /\ ntrades < MaxTrades
    /\ today1 <= today2
    /\ LET has == points_interpolator
           swap == trade.type = "FX Swap" /\ ~SwapSkipped(trade)
           pts == IF swap THEN swap_points(trade, has, points_data, today1)
                  ELSE None
           data1 == IF swap /\ has
                    THEN interpolate_store(points_data, trade.security,
                             trade.value_date, trade.mat_date, today1)
                    ELSE points_data
           cashflows ==
               IF trade.type = "FX Swap" THEN calculate_swap_cashflows(trade, pts)
               ELSE IF trade.type = "Spot" THEN calculate_spot_cashflows(trade)
               ELSE IF trade.type = "Outright Forward"
               THEN calculate_forward_cashflows(trade)
               ELSE <<>>
           pnl_pts == IF swap THEN pnl_points(trade, has, data1, today2) ELSE None
           data2 == IF swap /\ has
                    THEN interpolate_store(data1, trade.security,
                             trade.value_date, trade.mat_date, today2)
                    ELSE data1
           pnl == IF trade.type = "FX Swap" THEN calculate_pnl(trade, pnl_pts)
                  ELSE <<>>
       IN  IF pts.kind = "raise"
           THEN /\ pc' = "raised"
                /\ points_data' = data1
                /\ UNCHANGED <<ntrades, all_cashflows, all_pnl, okCcys, last>>
           ELSE IF pnl_pts.kind = "raise"
           THEN /\ pc' = "raised"
                /\ points_data' = data2
                /\ all_cashflows' = all_cashflows \o cashflows
                /\ UNCHANGED <<ntrades, all_pnl, okCcys, last>>
           ELSE /\ pc' = "ready"
                /\ points_data' = data2
                /\ ntrades' = ntrades + 1
                /\ all_cashflows' = all_cashflows \o cashflows
                /\ all_pnl' = IF pnl # <<>>
                              THEN Put(all_pnl, pnl[1].Currency,
                                       DAdd(Get(all_pnl, pnl[1].Currency, Zero),
                                            pnl[1].PnL))
                              ELSE all_pnl
                /\ okCcys' = IF swap /\ pnl_pts.kind = "value"
                             THEN okCcys \cup {parse_pair(trade.security)[2]}
                             ELSE okCcys
                /\ last' = [handled |-> TRUE, trade |-> trade,
                            cashflows |-> cashflows, pts |-> pts, pnl |-> pnl,
                            pnl_pts |-> pnl_pts]
    /\ UNCHANGED <<points_interpolator, current_pair, nlines, loaded, lastLine,
                   call, divisor_call, aggregated, csv>>

(* main, line 446 *)
Aggregate ==
    /\ pc = "ready"
    /\ pc' = "aggregated"
    /\ aggregated' = aggregate_cashflows(all_cashflows)
    /\ UNCHANGED <<curveVars, call, divisor_call, ntrades, all_cashflows, all_pnl, okCcys,
                   last, csv>>

(* main, line 453 *)
GenerateCsv ==
    /\ pc = "aggregated"
    /\ csv' = generate_csv(aggregated)
    /\ pc' = IF csv'.status = "TypeError" THEN "raised" ELSE "done"
    /\ UNCHANGED <<curveVars, call, divisor_call, ntrades, all_cashflows, all_pnl, okCcys,
                   last, aggregated>>

(* A run of main *)
Next ==
    \/ NoPointsCsv
    \/ MissingFile
    \/ OpenFile
    \/ \E raw \in MainLines : LoadLine(raw, MaxMainLines)
    \/ LoadEnd
    \/ \E trade \in TradeSet, today1 \in TodaySet, today2 \in TodaySet :
          ProcessTrade(trade, today1, today2)
    \/ Aggregate
    \/ GenerateCsv

Spec == Init /\ [][Next]_vars

(* A PointsInterpolator on its own: construction, then interpolate calls *)
NextCurve ==
    \/ MissingFile
    \/ OpenFile
    \/ \E raw \in LineSet : LoadLine(raw, MaxLines)
    \/ LoadEnd
    \/ \E pair \in CallPairs, value_date \in CallValueDates,
          mat_date \in CallMatDates, current_date \in CallCurrentDates,
          today \in CallTodays :
          InterpolateCall(pair, value_date, mat_date, current_date, today)

SpecCurve == Init /\ [][NextCurve]_vars

(* A call of the module-level helper points_divisor_by_pair *)
PointsDivisorCall(pair) ==
    /\ divisor_call' = [made |-> TRUE, pair |-> pair,
                        ret |-> points_divisor_by_pair(pair)]
    /\ UNCHANGED <<pc, curveVars, call, ntrades, all_cashflows, all_pnl, okCcys,
                   last, aggregated, csv>>

(* points_divisor_by_pair on its own, on any pair text *)
NextDivisor == \E pair \in DivisorPairs : PointsDivisorCall(pair)

SpecDivisor == Init /\ [][NextDivisor]_vars

(* The aggregator and the ordered output on their own, on any entry list *)
InitAgg ==
    /\ pc = "ready"
    /\ points_interpolator = FALSE
    /\ points_data = EmptyDict
    /\ current_pair = <<>>
    /\ nlines = 0
    /\ loaded = EmptyDict
    /\ lastLine = <<>>
    /\ call = NoCall
    /\ divisor_call = NoDivisorCall
    /\ ntrades = 0
    /\ all_cashflows \in ListsUpTo(EntrySet, MaxEntries)
    /\ all_pnl = EmptyDict
    /\ okCcys = {}
    /\ last = NoLast
    /\ aggregated = EmptyDict
    /\ csv = NoCsv

NextAgg == Aggregate \/ GenerateCsv

SpecAgg == InitAgg /\ [][NextAgg]_vars

----------------------------------------------------------------------------
(* Properties of the P&L map and of the swap derivation (Spec) *)

LastIsSwap ==
    last.handled /\ last.trade.type = "FX Swap" /\ ~SwapSkipped(last.trade)

(* C1: a swap whose P&L interpolation returned none contributes nothing to *)
(* the per-currency P&L map: every key of the map is the quote currency of *)
(* some swap whose interpolation gave a value.                              *)
C1_FailedSwapsLeaveNoKey == \A ccy \in DOMAIN all_pnl : ccy \in okCcys

(* The four legs of a swap before rounding, from the amounts, the pair and *)
(* the points p: interpolated if there are any, else the contracted ones    *)
C2_Legs(trade, pts) ==
    LET amount1 == parse_decimal(trade.amount1)
        amount2 == parse_decimal(trade.amount2)
        ccys == parse_pair(trade.security)
        p == IF pts.kind = "value" THEN pts.val ELSE parse_decimal(trade.rate_price)
        farRate == DAdd(DAbs(DDiv(amount2, amount1)),
                        DDiv(p, Dec(points_divisor_by_pair(trade.security))))
    IN  << [Date |-> trade.value_date, Currency |-> ccys[1], Amount |-> amount1,
            Type |-> "FX Swap - Near"],
           [Date |-> trade.value_date, Currency |-> ccys[2], Amount |-> amount2,
            Type |-> "FX Swap - Near"],
           [Date |-> trade.mat_date, Currency |-> ccys[1],
            Amount |-> DNeg(amount1), Type |-> "FX Swap - Far"],
           [Date |-> trade.mat_date, Currency |-> ccys[2],
            Amount |-> DMul(amount1, farRate), Type |-> "FX Swap - Far"] >>

(* C2: a swap with amount1 # 0 and both dates emits exactly four entries:  *)
(* near legs +amount1 and +amount2 at valueDate, far legs -amount1 and      *)
(* amount1 * farRate at maturityDate, farRate = |amount2/amount1| +         *)
(* p/divisor with p the interpolated points if the interpolation gave a    *)
(* value and the contracted ratePrice otherwise; the amounts are those     *)
(* before currency rounding.                                                *)
C2_SwapEmitsFourLegs ==
    LastIsSwap =>
        LET legs == C2_Legs(last.trade, last.pts)
        IN  /\ Len(last.cashflows) = 4
            /\ \A i \in 1..4 :
                  /\ last.cashflows[i].Date = legs[i].Date
                  /\ last.cashflows[i].Currency = legs[i].Currency
                  /\ last.cashflows[i].Type = legs[i].Type
                  /\ last.cashflows[i].TradeId = last.trade.deal_id
                  /\ last.cashflows[i].Cashflow =
                         normalize_cashflow(legs[i].Currency, legs[i].Amount)

(* A swap on USD/CNY priced off the curve (points 14 between horizons 2 and *)
(* 7): far quote leg 100 * (7 + 14/10000) = 700.14                          *)
C2_Witness ==
    /\ LastIsSwap
    /\ last.pts = Value(Dec(14))
    /\ Len(last.cashflows) = 4
    /\ last.cashflows[4].Cashflow = Norm(70014, 100)

(* The legs of the latest trade before rounding *)
C10_RawAmounts ==
    LET trade == last.trade
        amount1 == parse_decimal(trade.amount1)
        amount2 == parse_decimal(trade.amount2)
    IN  IF trade.type = "FX Swap"
        THEN <<amount1, amount2, DNeg(amount1),
               DMul(amount1, far_rate_of(trade, last.pts))>>
        ELSE <<amount1, amount2>>

(* C10: an emitted entry in JPY carries the unrounded leg amount rounded to *)
(* the nearest whole number, a tie going to the whole number of larger      *)
(* magnitude (ROUND_HALF_UP); an entry in any other currency carries the    *)
(* unrounded amount.                                                        *)
C10_JpyRoundedHalfUp ==
    last.handled =>
        \A i \in 1..Len(last.cashflows) :
            LET e == last.cashflows[i]
                raw == C10_RawAmounts[i]
                err == DAbs(DSub(e.Cashflow, raw))
            IN  IF e.Currency = JPY
                THEN /\ IsWhole(e.Cashflow)
                     /\ DLeq(err, Norm(1, 2))
                     /\ err = Norm(1, 2) => DLess(DAbs(raw), DAbs(e.Cashflow))
                ELSE e.Cashflow = raw

(* The near quote leg -150.5 JPY of the USD/JPY swap is emitted as -151 *)
C10_Witness ==
    /\ LastIsSwap
    /\ last.cashflows[2].Currency = JPY
    /\ C10_RawAmounts[2] = Norm(-1505, 10)
    /\ last.cashflows[2].Cashflow = Dec(-151)

----------------------------------------------------------------------------
(* Properties of interpolate and of the load (SpecCurve) *)

CallSamples == {call.before[i] : i \in 1..Len(call.before)}

(* A call on a pair with a non-empty series and a maturity after the *)
(* computation date                                                  *)
CallInterpolates == call.made /\ call.reached /\ call.before # <<>>

MinDays(S) == CHOOSE d \in {s.days : s \in S} : \A s \in S : d <= s.days
MaxDays(S) == CHOOSE d \in {s.days : s \in S} : \A s \in S : s.days <= d

(* p0 + (target-d0)/(d1-d0)*(p1-p0) *)
C3_Line(s0, s1, target) ==
    DAdd(s0.avg_points,
         DMul(DDiv(Dec(target - s0.days), Dec(s1.days - s0.days)),
              DSub(s1.avg_points, s0.avg_points)))

(* The values of the piecewise-linear function through the samples S at *)
(* target (several where samples share a horizon)                        *)
C3_Reference(S, target) ==
    IF target <= MinDays(S)
    THEN {s.avg_points : s \in {x \in S : x.days = MinDays(S)}}
    ELSE IF target >= MaxDays(S)
    THEN {s.avg_points : s \in {x \in S : x.days = MaxDays(S)}}
    ELSE IF \E s \in S : s.days = target
    THEN {s.avg_points : s \in {x \in S : x.days = target}}
    ELSE {C3_Line(s0, s1, target) :
             <<s0, s1>> \in {<<x, y>> \in S \X S :
                 /\ x.days < target /\ target < y.days
                 /\ ~\E z \in S : x.days < z.days /\ z.days < y.days}}

(* C3: on a non-empty series and a maturity after the computation date,    *)
(* interpolate returns the value at the target horizon of the              *)
(* piecewise-linear function through the samples: the minimum sample's     *)
(* points at or below the minimum horizon, the maximum sample's at or      *)
(* above the maximum, and the line through the adjacent samples between.   *)
C3_PiecewiseLinear ==
    CallInterpolates =>
        /\ call.ret.kind = "value"
        /\ call.ret.val \in C3_Reference(CallSamples, call.target_days)

(* Samples 2 -> 10 and 7 -> 20 were loaded with the longer horizon first;  *)
(* the target 4 lies strictly between them and the call returns 14         *)
C3_Witness ==
    /\ CallInterpolates
    /\ Len(call.before) >= 2
    /\ call.before[1].days = 7 /\ call.before[2].days = 2
    /\ call.target_days = 4
    /\ call.ret = Value(Dec(14))

C4_Candidates == {s \in CallSamples : s.days > 0}

(* C4: samples whose horizon is not above 0 are no candidates: a series    *)
(* with none but such samples makes interpolate return none, and at or     *)
(* below the smallest positive horizon the call returns the points of a    *)
(* sample with that horizon.                                                *)
C4_ZeroHorizonExcluded ==
    CallInterpolates =>
        IF C4_Candidates = {} THEN call.ret.kind = "none"
        ELSE call.target_days <= MinDays(C4_Candidates) =>
                 /\ call.ret.kind = "value"
                 /\ \E s \in C4_Candidates :
                       s.days = MinDays(C4_Candidates)
                       /\ call.ret.val = s.avg_points

WeekdaysIn(S) == Cardinality({d \in S : weekday(d) < 5})

(* C5: the target horizon is the number of Monday-to-Friday days strictly  *)
(* between the computation date and the maturity date.                     *)
C5_WeekdaysStrictlyBetween ==
    (call.made /\ call.reached) =>
        call.target_days = WeekdaysIn((call.calc_date + 1)..(call.mat_date - 1))

(* C5 as amended: the target horizon is the number of Monday-to-Friday     *)
(* days d with computation date <= d < maturity date: the computation date *)
(* counts, the maturity date does not.                                     *)
C5_WeekdaysFromCalcDate ==
    (call.made /\ call.reached) =>
        call.target_days = WeekdaysIn(call.calc_date..(call.mat_date - 1))

(* From Monday 8 to Tuesday 9 the horizon is 1 *)
C5_Witness ==
    /\ call.made /\ call.reached
    /\ weekday(call.calc_date) = 0
    /\ call.mat_date = call.calc_date + 1
    /\ call.target_days = 1

(* C6: a data row whose bid or ask points are no number is skipped and the *)
(* load goes on: after such a row the load has not raised.                 *)
C6_BadRowSkipped ==
    (/\ IsDataRow(lastLine, current_pair)
     /\ RowRaises(split(strip(lastLine), ","))) => pc = "load"

(* C7: interpolate leaves the store as loading left it: same samples, same *)
(* order, for every pair.                                                   *)
C7_StoreUnchanged == pc = "ready" => points_data = loaded

----------------------------------------------------------------------------
(* Properties of the aggregator and of the ordered output (SpecAgg) *)

Aggregated == pc \in {"aggregated", "done", "raised"}

RECURSIVE SumCashflows(_)
SumCashflows(entries) ==
    IF entries = <<>> THEN Zero
    ELSE DAdd(Head(entries).Cashflow, SumCashflows(Tail(entries)))

RECURSIVE SumValues(_, _)
SumValues(dict, keys) ==
    IF keys = {} THEN Zero
    ELSE LET k == CHOOSE x \in keys : TRUE
         IN  DAdd(dict[k], SumValues(dict, keys \ {k}))

EntriesAt(key) ==
    SelectSeq(all_cashflows, LAMBDA e : <<e.Date, e.Currency>> = key)

(* C8: the keys of the aggregate are exactly the (date, currency) pairs of *)
(* the entries, the value at a key is the sum of the amounts of the        *)
(* entries with that key, and the values add up to the sum of all amounts. *)
C8_AggregateSums ==
    Aggregated =>
        /\ DOMAIN aggregated =
               {<<all_cashflows[i].Date, all_cashflows[i].Currency>> :
                    i \in 1..Len(all_cashflows)}
        /\ \A key \in DOMAIN aggregated :
               aggregated[key] = SumCashflows(EntriesAt(key))
        /\ SumValues(aggregated, DOMAIN aggregated) = SumCashflows(all_cashflows)

(* +100 and -40 at (5, USD) give +60 there; another key stays separate *)
C8_Witness ==
    /\ Aggregated
    /\ Len(EntriesAt(<<5, USD>>)) = 2
    /\ <<5, USD>> \in DOMAIN aggregated
    /\ aggregated[<<5, USD>>] = Dec(60)
    /\ Cardinality(DOMAIN aggregated) = 2

(* C9: the rows of the ordered output come out ascending by (date,         *)
(* currency) with the null-dated rows after every dated row, and the       *)
(* operation completes without error, also with dated and null-dated keys  *)
(* together.                                                                *)
C9_OrderedNullLast ==
    pc \in {"done", "raised"} =>
        /\ csv.status = "written"
        /\ Len(csv.rows) = Cardinality(DOMAIN aggregated)
        /\ \A i \in 1..Len(csv.rows) : \A j \in 1..Len(csv.rows) :
              i < j =>
                  LET a == csv.rows[i]
                      b == csv.rows[j]
                  IN  IF a[1] = NoDate \/ b[1] = NoDate
                      THEN b[1] = NoDate /\ (a[1] = NoDate => StrLess(a[2], b[2]))
                      ELSE KeyLess(<<a[1], a[2]>>, <<b[1], b[2]>>)

----------------------------------------------------------------------------
(* Properties of points_divisor_by_pair (SpecDivisor) *)

(* The text before the first "/" of the pair is J, P, Y in either case,    *)
(* with nothing but blanks around it                                       *)
C11_BaseIsJPY(pair) ==
    \E i \in 1..Len(pair) :
        /\ pair[i] = "/"
        /\ \A k \in 1..(i - 1) : pair[k] # "/"
        /\ \E a \in 1..(i - 3) :
              /\ pair[a] \in {"J", "j"}
              /\ pair[a + 1] \in {"P", "p"}
              /\ pair[a + 2] \in {"Y", "y"}
              /\ \A k \in (1..(i - 1)) \ {a, a + 1, a + 2} : pair[k] = " "

(* C11: points_divisor_by_pair returns 1,000,000 exactly when the base     *)
(* currency of the pair (the text before the "/", in any case, blanks      *)
(* around it ignored) is JPY, and 10,000 in every other case, the empty    *)
(* pair and a pair without separator included.                             *)
C11_DivisorByBase ==
    divisor_call.made =>
        divisor_call.ret = IF C11_BaseIsJPY(divisor_call.pair) THEN 1000000
                           ELSE 10000

(* A lower-case JPY base with blanks around it gets 1,000,000 *)
C11_Witness ==
    /\ divisor_call.made
    /\ divisor_call.pair = <<" ","j","p","Y"," "," ","/","C","N","Y">>
    /\ divisor_call.ret = 1000000

----------------------------------------------------------------------------
(* Properties of the base-currency legs of a swap (Spec) *)

(* The entries of all_cashflows that a trade emitted in its base currency *)
C12_BaseEntries(trade) ==
    SelectSeq(all_cashflows,
              LAMBDA e : /\ e.TradeId = trade.deal_id
                         /\ e.Currency = parse_pair(trade.security)[1])

(* C12: the near and the far base-currency entries of a swap are opposite  *)
(* after currency rounding, also for a JPY base with a fractional amount1  *)
(* (the rounding of -amount1 is the negation of the rounding of amount1),  *)
(* so that in the collected entries the base-currency contributions of     *)
(* each swap add up to zero.                                               *)
C12_BaseLegsCancel ==
    /\ LastIsSwap =>
           LET near == last.cashflows[1]
               far == last.cashflows[3]
               amount1 == parse_decimal(last.trade.amount1)
           IN  /\ near.Currency = parse_pair(last.trade.security)[1]
               /\ far.Currency = near.Currency
               /\ near.Date = last.trade.value_date
               /\ far.Date = last.trade.mat_date
               /\ DAdd(near.Cashflow, far.Cashflow) = Zero
               /\ normalize_cashflow(near.Currency, DNeg(amount1)) =
                      DNeg(normalize_cashflow(near.Currency, amount1))
    /\ \A trade \in TradeSet :
           LET ccys == parse_pair(trade.security)
           IN  trade.type = "FX Swap" /\ ccys[1] # ccys[2] =>
                   SumCashflows(C12_BaseEntries(trade)) = Zero

(* The JPY/CNY swap with amount1 2.5: near leg 3 JPY, far leg -3 JPY *)
C12_Witness ==
    /\ LastIsSwap
    /\ last.trade = SwapJPYCNY
    /\ last.cashflows[1].Currency = JPY
    /\ ~IsWhole(parse_decimal(last.trade.amount1))
    /\ last.cashflows[1].Cashflow = Dec(3)
    /\ last.cashflows[3].Cashflow = Dec(-3)
    /\ Len(C12_BaseEntries(SwapJPYCNY)) = 2

----------------------------------------------------------------------------
(* Properties of interpolate on samples that share a horizon (SpecCurve) *)

(* The positions of the series as it was before the call whose sample has  *)
(* the horizon days; the stable sort keeps them in this order              *)
C13_Positions(days) == {i \in 1..Len(call.before) : call.before[i].days = days}

C13_First(days) ==
    call.before[CHOOSE i \in C13_Positions(days) :
                    \A k \in C13_Positions(days) : i <= k]

(* C13: on a non-empty series, samples sharing a horizon included, and a   *)
(* maturity after the computation date, interpolate returns a points       *)
(* value (no division by zero, no final "return None"), and when the       *)
(* target equals a horizon that several samples share, the value is that   *)
(* of the first of them in the stable sorted order.                        *)
C13_ValueFirstOfTie ==
    CallInterpolates =>
        /\ call.ret.kind = "value"
        /\ Cardinality(C13_Positions(call.target_days)) >= 2 =>
               call.ret.val = C13_First(call.target_days).avg_points

====
